---- MODULE Spec2Model ----
(***************************************************************************)
(* A model of app.py: the watch-history loader (extract_and_save_data),    *)
(* the DataFrame pipeline (json_to_dataframe, clean_data,                  *)
(* extract_time_components, process_json_data), the timestamp normaliser   *)
(* (convert_to_datetime), the three feature functions and main.            *)
(*                                                                         *)
(* Spec     is one run of main() over the two files on disk.               *)
(* UnitSpec is a sequence of direct calls of the pure functions.           *)
(***************************************************************************)
EXTENDS Integers, Sequences, FiniteSets, TLC

VARIABLES
    input_file,          \* watch-history.json on disk
    out_file,            \* youtube_data.json on disk
    pc,                  \* position of main()
    data,                \* extract_and_save_data: the loaded list
    i,                   \* extract_and_save_data: loop index (1-based)
    youtube_data,        \* extract_and_save_data: the "YouTube" partition
    youtube_music_data,  \* extract_and_save_data: the "YouTube Music" partition
    extract_status,      \* "pending" | "ok" | "failed" (the except branch ran)
    df,                  \* process_json_data: the table handed to the next stage
    stages,              \* the stages of process_json_data that have run, in order
    result,              \* what process_json_data returned
    raised,              \* the exception that left main(), "" when none
    views,               \* the chart views main() rendered
    call,                \* UnitSpec: the last direct call [fn, arg]
    ret                  \* UnitSpec: what the last direct call returned

vars == <<input_file, out_file, pc, data, i, youtube_data, youtube_music_data,
          extract_status, df, stages, result, raised, views, call, ret>>

mainVars == <<input_file, out_file, pc, data, i, youtube_data,
              youtube_music_data, extract_status, df, stages, result, raised,
              views>>

unitVars == <<call, ret>>

-----------------------------------------------------------------------------
(* Bounds *)

\* longest list of records in a file on disk
MaxRecords == 3

\* direct calls take integers in -MaxArg .. MaxArg
MaxArg == 30

\* longest list of records a table of a direct clean_data call is built from
MaxUnitRows == 2

-----------------------------------------------------------------------------
(* Values *)

\* Python None, as a table, a timestamp or a return value
None == [kind |-> "None"]

\* pandas NaT
NaT == [kind |-> "NaT"]

\* a number cell of a column, and the float NaN
Num(n) == [nan |-> FALSE, v |-> n]

NaN == [nan |-> TRUE, v |-> 0]

\* Python's comparisons: every ordering comparison with NaN is False
PyLe(a, b) == ~a.nan /\ ~b.nan /\ a.v <= b.v

PyLt(a, b) == ~a.nan /\ ~b.nan /\ a.v < b.v

\* Python's  x in [ ... ]  over numbers: NaN equals nothing
PyIn(a, S) == ~a.nan /\ a.v \in S

\* a call that returned v, and a call that raised exception e
Ret(v) == [exc |-> "", val |-> v]

Raise(e) == [exc |-> e, val |-> None]

-----------------------------------------------------------------------------
(* Calendar instants and timestamp strings *)

Instant(y, m, d, h, mi, s) ==
    [year |-> y, month |-> m, day |-> d, hour |-> h, minute |-> mi, second |-> s]

Sun_2023_05_14 == Instant(2023, 5, 14, 10, 15, 30)

Mon_2023_12_11 == Instant(2023, 12, 11, 23, 5, 0)

Sat_2024_08_03 == Instant(2024, 8, 3, 3, 0, 59)

Wed_2022_10_05 == Instant(2022, 10, 5, 14, 45, 7)

Instants == {Sun_2023_05_14, Mon_2023_12_11, Sat_2024_08_03, Wed_2022_10_05}

\* the textual encodings of section 4.2, and "none" for a string such as
\* "not-a-date" that is in none of them
Encodings == {"generic", "isoZ", "slash", "abbr"}

\* a JSON string holding instant inst in encoding enc
Str(enc, inst) == [kind |-> "str", enc |-> enc, inst |-> inst]

NotADate == Str("none", Sun_2023_05_14)

\* a JSON true/false in the time field
JsonBool == [kind |-> "bool"]

\* a pandas Timestamp; aware = it carries a timezone (UTC)
Timestamp(inst, aware) == [kind |-> "ts", inst |-> inst, aware |-> aware]

TimeStrings == {Str(e, t) : e \in Encodings, t \in Instants} \cup {NotADate}

Timestamps == {Timestamp(t, a) : t \in Instants, a \in BOOLEAN}

\* every value convert_to_datetime is applied to: lines 65 and 140
TimeValues == TimeStrings \cup {JsonBool} \cup Timestamps \cup {NaT, None}

-----------------------------------------------------------------------------
(* pandas.to_datetime, as lines 85, 90, 95 and 100 call it *)

\* format = "generic" is the call without format=; the others are the three
\* explicit strptime formats.  The generic parse of a string with a trailing
\* Z gives a timezone-aware Timestamp; a strptime format in which Z is a
\* literal gives a naive one.
PdToDatetime(arg, format) ==
    CASE arg.kind = "None" -> Ret(None)
      [] arg.kind \in {"ts", "NaT"} -> Ret(arg)
      [] arg.kind = "bool" -> Raise("TypeError")
      [] arg.kind = "str" ->
            IF format = "generic"
            THEN IF arg.enc \in Encodings
                 THEN Ret(Timestamp(arg.inst, arg.enc = "isoZ"))
                 ELSE Raise("ValueError")
            ELSE IF arg.enc = format
                 THEN Ret(Timestamp(arg.inst, FALSE))
                 ELSE Raise("ValueError")

\* try: return pd.to_datetime(...)  except ValueError: pass   -- then rest
TryParse(date_str, format, rest) ==
    LET r == PdToDatetime(date_str, format)
    IN  IF r.exc = "ValueError" THEN rest ELSE r

convert_to_datetime(date_str) ==
    TryParse(date_str, "generic",
      TryParse(date_str, "isoZ",
        TryParse(date_str, "slash",
          TryParse(date_str, "abbr",
            Ret(None)))))

-----------------------------------------------------------------------------
(* Feature functions *)

\* extract_time_of_day with the last bound closed: 18 <= hour <= 24
extract_time_of_day_closed_24(hour) ==
    IF PyLe(Num(6), hour) /\ PyLt(hour, Num(12)) THEN "Morning"
    ELSE IF PyLe(Num(12), hour) /\ PyLt(hour, Num(18)) THEN "Afternoon"
    ELSE IF PyLe(Num(18), hour) /\ PyLe(hour, Num(24)) THEN "Evening"
    ELSE "Night"

extract_time_of_day(hour) ==
    IF PyLe(Num(6), hour) /\ PyLt(hour, Num(12)) THEN "Morning"
    ELSE IF PyLe(Num(12), hour) /\ PyLt(hour, Num(18)) THEN "Afternoon"
    ELSE IF PyLe(Num(18), hour) /\ PyLt(hour, Num(24)) THEN "Evening"
    ELSE "Night"

\* extract_season with the first bound open: 3 < month <= 5
extract_season_open_3(month) ==
    IF PyLt(Num(3), month) /\ PyLe(month, Num(5)) THEN "Spring"
    ELSE IF PyLe(Num(6), month) /\ PyLe(month, Num(8)) THEN "Summer"
    ELSE IF PyLe(Num(9), month) /\ PyLe(month, Num(11)) THEN "Autumn"
    ELSE "Winter"

extract_season(month) ==
    IF PyLe(Num(3), month) /\ PyLe(month, Num(5)) THEN "Spring"
    ELSE IF PyLe(Num(6), month) /\ PyLe(month, Num(8)) THEN "Summer"
    ELSE IF PyLe(Num(9), month) /\ PyLe(month, Num(11)) THEN "Autumn"
    ELSE "Winter"

\* extract_weekend under a Monday = 1 .. Sunday = 7 convention: day in [6, 7]
extract_weekend_6_7(day) ==
    IF PyIn(day, {6, 7}) THEN TRUE ELSE FALSE

extract_weekend(day) ==
    IF PyIn(day, {5, 6}) THEN TRUE ELSE FALSE

-----------------------------------------------------------------------------
(* Titles: strings as sequences of characters *)

Watched == <<"W", "a", "t", "c", "h", "e", "d">>

\* "Watched a"
TitleWatchedA == Watched \o <<" ", "a">>

\* "b"
TitleB == <<"b">>

\* "Watched b Watched"
TitleTwice == Watched \o <<" ", "b", " ">> \o Watched

\* "WatWatchedched"
TitleNested == <<"W", "a", "t">> \o Watched \o <<"c", "h", "e", "d">>

\* str.replace('Watched', ''): one left-to-right pass over the non-overlapping
\* occurrences
RECURSIVE StrReplaceWatched(_)
StrReplaceWatched(s) ==
    IF Len(s) < Len(Watched) THEN s
    ELSE IF SubSeq(s, 1, Len(Watched)) = Watched
         THEN StrReplaceWatched(SubSeq(s, Len(Watched) + 1, Len(s)))
         ELSE <<Head(s)>> \o StrReplaceWatched(Tail(s))

-----------------------------------------------------------------------------
(* Records of the JSON files *)

columns_to_drop == {"details", "activityControls", "products", "header"}

\* a JSON object: the keys among columns_to_drop it has, and its values.
\* title and time are always keys; header is read only when it is a key.
Rec(fields, header, title, time) ==
    [fields |-> fields, header |-> header, title |-> title, time |-> time]

RawRecords ==
    { Rec(columns_to_drop, "YouTube", TitleWatchedA, Str("isoZ", Sun_2023_05_14)),
      Rec(columns_to_drop \ {"details"}, "YouTube", TitleB, Str("isoZ", Wed_2022_10_05)),
      Rec(columns_to_drop, "YouTube", TitleNested, Str("slash", Mon_2023_12_11)),
      Rec(columns_to_drop, "YouTube", TitleTwice, Str("abbr", Sat_2024_08_03)),
      Rec(columns_to_drop, "YouTube", TitleWatchedA, NotADate),
      Rec(columns_to_drop, "YouTube", TitleB, JsonBool),
      Rec(columns_to_drop, "YouTube Music", TitleWatchedA, Str("isoZ", Sun_2023_05_14)),
      Rec(columns_to_drop, "Other", TitleB, Str("generic", Mon_2023_12_11)),
      Rec(columns_to_drop \ {"header"}, "", TitleB, Str("isoZ", Sun_2023_05_14)) }

SeqsUpTo(S, n) == UNION {[1..k -> S] : k \in 0..n}

\* a file on disk: absent, not valid JSON, or a JSON list of records
Absent == [kind |-> "absent", data |-> <<>>]

Malformed == [kind |-> "malformed", data |-> <<>>]

Json(records) == [kind |-> "json", data |-> records]

InputFiles == {Absent, Malformed} \cup {Json(d) : d \in SeqsUpTo(RawRecords, MaxRecords)}

\* what youtube_data.json may hold from an earlier run
StaleFiles ==
    { Absent, Malformed,
      Json(<<Rec(columns_to_drop, "YouTube", TitleTwice, Str("abbr", Wed_2022_10_05))>>),
      Json(<<Rec({"products", "header"}, "YouTube", TitleB, Str("isoZ", Sat_2024_08_03))>>) }

-----------------------------------------------------------------------------
(* DataFrames *)

\* a row; a cell is meaningful only when its column is in the table's cols
Row(title, time) ==
    [title |-> title, time |-> time,
     day |-> NaN, month |-> NaN, year |-> NaN,
     hour |-> NaN, minute |-> NaN, second |-> NaN,
     time_of_day |-> "", season |-> "", weekend |-> FALSE]

Frame(cols, rows) == [kind |-> "df", cols |-> cols, rows |-> rows]

\* pd.DataFrame(list of dicts): the columns are the union of the keys, and
\* an empty list gives a table with no columns
DataFrame(records) ==
    Frame(IF records = <<>> THEN {}
          ELSE {"title", "time"} \cup UNION {records[k].fields : k \in DOMAIN records},
          [k \in DOMAIN records |-> Row(records[k].title, records[k].time)])

\* json_to_dataframe handing on an empty table where it should return None
json_to_dataframe_empty_on_error(file) ==
    IF file.kind = "json" THEN DataFrame(file.data) ELSE DataFrame(<<>>)

json_to_dataframe(file) ==
    IF file.kind = "absent" THEN None
    ELSE IF file.kind = "malformed" THEN None
    ELSE DataFrame(file.data)

\* clean_data with drop(columns=..., errors='ignore'): a missing column is
\* skipped instead of raising KeyError
clean_data_ignore_missing(d) ==
    IF "title" \notin d.cols THEN None
    ELSE Frame(d.cols \ columns_to_drop,
               [k \in DOMAIN d.rows |->
                   [d.rows[k] EXCEPT !.title = StrReplaceWatched(@)]])

clean_data(d) ==
    IF ~(columns_to_drop \subseteq d.cols) THEN None
    ELSE IF "title" \notin d.cols THEN None
    ELSE Frame(d.cols \ columns_to_drop,
               [k \in DOMAIN d.rows |->
                   [d.rows[k] EXCEPT !.title = StrReplaceWatched(@)]])

-----------------------------------------------------------------------------
(* The time column *)

\* Series.apply(convert_to_datetime): the call results, row by row
Converted(d) == [k \in DOMAIN d.rows |-> convert_to_datetime(d.rows[k].time)]

\* the column pandas builds from the returned values is datetime64, so that
\* .dt works on it, when it holds a Timestamp and its Timestamps are all
\* timezone-aware or all naive; otherwise its dtype is object
IsDatetimeColumn(times) ==
    /\ \E k \in DOMAIN times : times[k].kind = "ts"
    /\ \A j, k \in DOMAIN times :
          (times[j].kind = "ts" /\ times[k].kind = "ts")
              => times[j].aware = times[k].aware

\* a cell of a datetime64 column: None is stored as NaT
AsCell(t) == IF t.kind = "ts" THEN t ELSE NaT

\* df['time'] = df['time'].apply(convert_to_datetime): the table with the
\* new column, or the exception the first failing call raised
AssignTime(d) ==
    LET conv == Converted(d)
        bad  == {k \in DOMAIN conv : conv[k].exc # ""}
        vals == [k \in DOMAIN conv |-> conv[k].val]
    IN  IF bad # {}
        THEN Raise(conv[CHOOSE k \in bad : \A j \in bad : k <= j].exc)
        ELSE Ret([d EXCEPT !.rows =
                    [k \in DOMAIN d.rows |->
                        [d.rows[k] EXCEPT !.time =
                            IF IsDatetimeColumn(vals) THEN AsCell(vals[k])
                            ELSE vals[k]]]])

TimeColumn(d) == [k \in DOMAIN d.rows |-> d.rows[k].time]

\* Series.dt.<field>: the field of a Timestamp, NaN for NaT
DtField(t, f) == IF t.kind = "ts" THEN Num(t.inst[f]) ELSE NaN

\* days since 1970-01-01 of a civil date (proleptic Gregorian calendar)
DaysFromCivil(y, m, d) ==
    LET yy  == IF m <= 2 THEN y - 1 ELSE y
        era == yy \div 400
        yoe == yy - era * 400
        mp  == IF m > 2 THEN m - 3 ELSE m + 9
        doy == (153 * mp + 2) \div 5 + d - 1
        doe == yoe * 365 + yoe \div 4 - yoe \div 100 + doy
    IN  era * 146097 + doe - 719468

\* Series.dt.weekday: Monday = 0 .. Sunday = 6, NaN for NaT
DtWeekday(t) ==
    IF t.kind = "ts"
    THEN Num((DaysFromCivil(t.inst.year, t.inst.month, t.inst.day) + 3) % 7)
    ELSE NaN

extract_time_components(d) ==
    LET a == AssignTime(d)
    IN  IF a.exc = "ValueError" THEN Ret(d)
        ELSE IF a.exc # "" THEN a
        ELSE IF "time" \notin a.val.cols THEN Ret(a.val)
        ELSE IF ~IsDatetimeColumn(TimeColumn(a.val)) THEN Raise("AttributeError")
        ELSE Ret(Frame(a.val.cols \cup {"day", "month", "year", "hour", "minute", "second"},
                       [k \in DOMAIN a.val.rows |->
                           LET r == a.val.rows[k]
                           IN  [r EXCEPT !.day = DtField(r.time, "day"),
                                         !.month = DtField(r.time, "month"),
                                         !.year = DtField(r.time, "year"),
                                         !.hour = DtField(r.time, "hour"),
                                         !.minute = DtField(r.time, "minute"),
                                         !.second = DtField(r.time, "second")]]))

\* df_cleaned['weekend'] = df_cleaned['time'].dt.weekday.apply(extract_weekend)
WeekendOfTime(t) == extract_weekend(DtWeekday(t))

\* lines 140 to 144 of process_json_data
DeriveFeatures(d) ==
    LET a == AssignTime(d)
    IN  IF a.exc # "" THEN a
        ELSE IF ~({"hour", "month"} \subseteq a.val.cols) THEN Raise("KeyError")
        ELSE IF ~IsDatetimeColumn(TimeColumn(a.val)) THEN Raise("AttributeError")
        ELSE Ret(Frame(a.val.cols \cup {"time_of_day", "season", "weekend"},
                       [k \in DOMAIN a.val.rows |->
                           LET r == a.val.rows[k]
                           IN  [r EXCEPT !.time_of_day = extract_time_of_day(r.hour),
                                         !.season = extract_season(r.month),
                                         !.weekend = WeekendOfTime(r.time)]]))

-----------------------------------------------------------------------------
(* main(): extract_and_save_data(), process_json_data(), the five views *)

NotReturned == [kind |-> "pending"]

AllViews == <<"time_of_day", "season", "weekend", "monthly_views", "hourly_views">>

Init ==
    /\ input_file \in InputFiles
    /\ out_file \in StaleFiles
    /\ pc = "extract_open"
    /\ data = <<>>
    /\ i = 1
    /\ youtube_data = <<>>
    /\ youtube_music_data = <<>>
    /\ extract_status = "pending"
    /\ df = None
    /\ stages = <<>>
    /\ result = NotReturned
    /\ raised = ""
    /\ views = <<>>
    /\ call = [fn |-> "none", arg |-> None]
    /\ ret = None

\* lines 16 to 23: open and json.load; a missing or undecodable file raises
\* into the except branch of line 37, and main goes on at line 203
ExtractOpen ==
    /\ pc = "extract_open"
    /\ IF input_file.kind = "json"
       THEN /\ data' = input_file.data
            /\ pc' = "extract_loop"
            /\ UNCHANGED extract_status
       ELSE /\ extract_status' = "failed"
            /\ pc' = "load"
            /\ UNCHANGED data
    /\ i' = 1
    /\ youtube_data' = <<>>
    /\ youtube_music_data' = <<>>
    /\ UNCHANGED <<input_file, out_file, df, stages, result, raised, views>>
    /\ UNCHANGED unitVars

\* the partition an item goes to: lines 27 to 30
PutMusic(item) == item.header = "YouTube Music"

\* the second branch as a plain else: everything that is not YouTube Music
PutYouTube_else(item) == ~PutMusic(item)

PutYouTube(item) == ~PutMusic(item) /\ item.header = "YouTube"

\* lines 26 to 30: one iteration; item["header"] of an object without that
\* key raises KeyError into the except branch of line 37
ExtractItem ==
    /\ pc = "extract_loop"
    /\ i <= Len(data)
    /\ LET item == data[i]
       IN  IF "header" \notin item.fields
           THEN /\ extract_status' = "failed"
                /\ pc' = "load"
                /\ UNCHANGED <<i, youtube_data, youtube_music_data>>
           ELSE /\ youtube_music_data' =
                       IF PutMusic(item) THEN Append(youtube_music_data, item)
                       ELSE youtube_music_data
                /\ youtube_data' =
                       IF PutYouTube(item) THEN Append(youtube_data, item)
                       ELSE youtube_data
                /\ i' = i + 1
                /\ UNCHANGED <<extract_status, pc>>
    /\ UNCHANGED <<input_file, out_file, data, df, stages, result, raised, views>>
    /\ UNCHANGED unitVars

\* lines 33 to 36: only youtube_data is written
ExtractSave ==
    /\ pc = "extract_loop"
    /\ i > Len(data)
    /\ out_file' = Json(youtube_data)
    /\ extract_status' = "ok"
    /\ pc' = "load"
    /\ UNCHANGED <<input_file, data, i, youtube_data, youtube_music_data, df,
                   stages, result, raised, views>>
    /\ UNCHANGED unitVars

\* line 134
Load ==
    /\ pc = "load"
    /\ df' = json_to_dataframe(out_file)
    /\ stages' = Append(stages, "load")
    /\ IF df' = None
       THEN result' = None /\ pc' = "render"
       ELSE UNCHANGED result /\ pc' = "clean"
    /\ UNCHANGED <<input_file, out_file, data, i, youtube_data,
                   youtube_music_data, extract_status, raised, views>>
    /\ UNCHANGED unitVars

\* line 136
Clean ==
    /\ pc = "clean"
    /\ df' = clean_data(df)
    /\ stages' = Append(stages, "clean")
    /\ IF df' = None
       THEN result' = None /\ pc' = "render"
       ELSE UNCHANGED result /\ pc' = "components"
    /\ UNCHANGED <<input_file, out_file, data, i, youtube_data,
                   youtube_music_data, extract_status, raised, views>>
    /\ UNCHANGED unitVars

\* line 138: the timestamps are normalised (line 65), then the calendar
\* fields are derived (lines 71 to 77); an exception leaves main()
Components ==
    /\ pc = "components"
    /\ LET r == extract_time_components(df)
       IN  IF r.exc # ""
           THEN /\ raised' = r.exc
                /\ pc' = "done"
                /\ stages' = stages \o
                      (IF r.exc = "AttributeError" THEN <<"normalize", "calendar">>
                       ELSE <<"normalize">>)
                /\ UNCHANGED <<df, result>>
           ELSE /\ df' = r.val
                /\ stages' = stages \o <<"normalize", "calendar">>
                /\ UNCHANGED raised
                /\ IF r.val = None
                   THEN result' = None /\ pc' = "render"
                   ELSE UNCHANGED result /\ pc' = "derive"
    /\ UNCHANGED <<input_file, out_file, data, i, youtube_data,
                   youtube_music_data, extract_status, views>>
    /\ UNCHANGED unitVars

\* lines 140 to 144
Derive ==
    /\ pc = "derive"
    /\ stages' = Append(stages, "derive")
    /\ LET r == DeriveFeatures(df)
       IN  IF r.exc # ""
           THEN raised' = r.exc /\ pc' = "done" /\ UNCHANGED <<df, result>>
           ELSE df' = r.val /\ result' = r.val /\ pc' = "render" /\ UNCHANGED raised
    /\ UNCHANGED <<input_file, out_file, data, i, youtube_data,
                   youtube_music_data, extract_status, views>>
    /\ UNCHANGED unitVars

\* lines 204 to 210
Render ==
    /\ pc = "render"
    /\ views' = IF result # None THEN AllViews ELSE views
    /\ pc' = "done"
    /\ UNCHANGED <<input_file, out_file, data, i, youtube_data,
                   youtube_music_data, extract_status, df, stages, result, raised>>
    /\ UNCHANGED unitVars

Next ==
    \/ ExtractOpen
    \/ ExtractItem
    \/ ExtractSave
    \/ Load
    \/ Clean
    \/ Components
    \/ Derive
    \/ Render

Spec == Init /\ [][Next]_vars

-----------------------------------------------------------------------------
(* Direct calls of the functions *)

\* the numbers a direct call is given
ArgNumbers == {Num(n) : n \in -MaxArg .. MaxArg} \cup {NaN}

\* the tables a direct clean_data call is given: every combination of the
\* four columns present or missing, and the table with no rows
UnitRecords ==
    {Rec(F, "YouTube", t, Str("isoZ", Sun_2023_05_14)) :
        F \in SUBSET columns_to_drop, t \in {TitleWatchedA, TitleNested}}

UnitFrames == {DataFrame(d) : d \in SeqsUpTo(UnitRecords, MaxUnitRows)}

UnitInit ==
    /\ input_file = Absent
    /\ out_file = Absent
    /\ pc = "unit"
    /\ data = <<>>
    /\ i = 1
    /\ youtube_data = <<>>
    /\ youtube_music_data = <<>>
    /\ extract_status = "pending"
    /\ df = None
    /\ stages = <<>>
    /\ result = NotReturned
    /\ raised = ""
    /\ views = <<>>
    /\ call = [fn |-> "none", arg |-> None]
    /\ ret = None

CallExtractTimeOfDay ==
    /\ pc = "unit"
    /\ \E hour \in ArgNumbers :
          /\ call' = [fn |-> "extract_time_of_day", arg |-> hour]
          /\ ret' = extract_time_of_day(hour)
    /\ UNCHANGED mainVars

CallExtractSeason ==
    /\ pc = "unit"
    /\ \E month \in ArgNumbers :
          /\ call' = [fn |-> "extract_season", arg |-> month]
          /\ ret' = extract_season(month)
    /\ UNCHANGED mainVars

CallExtractWeekend ==
    /\ pc = "unit"
    /\ \E day \in ArgNumbers :
          /\ call' = [fn |-> "extract_weekend", arg |-> day]
          /\ ret' = extract_weekend(day)
    /\ UNCHANGED mainVars

CallConvertToDatetime ==
    /\ pc = "unit"
    /\ \E date_str \in TimeValues :
          /\ call' = [fn |-> "convert_to_datetime", arg |-> date_str]
          /\ ret' = convert_to_datetime(date_str)
    /\ UNCHANGED mainVars

CallCleanData ==
    /\ pc = "unit"
    /\ \E d \in UnitFrames :
          /\ call' = [fn |-> "clean_data", arg |-> d]
          /\ ret' = clean_data(d)
    /\ UNCHANGED mainVars

\* clean_data applied to what a successful clean_data returned
CallCleanDataAgain ==
    /\ pc = "unit"
    /\ call.fn = "clean_data"
    /\ ret # None
    /\ call' = [fn |-> "clean_data_again", arg |-> ret]
    /\ ret' = clean_data(ret)
    /\ UNCHANGED mainVars

UnitNext ==
    \/ CallExtractTimeOfDay
    \/ CallExtractSeason
    \/ CallExtractWeekend
    \/ CallConvertToDatetime
    \/ CallCleanData
    \/ CallCleanDataAgain

UnitSpec == UnitInit /\ [][UnitNext]_vars

-----------------------------------------------------------------------------
(* Reference facts the properties are stated against *)

HasHeader(r, h) == "header" \in r.fields /\ r.header = h

IsYouTubeRecord(r) == HasHeader(r, "YouTube")

IsYouTubeMusicRecord(r) == HasHeader(r, "YouTube Music")

\* the calendar says: Monday = 0 .. Sunday = 6
KnownWeekday(inst) ==
    CASE inst = Sun_2023_05_14 -> 6
      [] inst = Mon_2023_12_11 -> 0
      [] inst = Sat_2024_08_03 -> 5
      [] inst = Wed_2022_10_05 -> 2

KnownTimeOfDay(inst) ==
    CASE inst = Sun_2023_05_14 -> "Morning"
      [] inst = Mon_2023_12_11 -> "Evening"
      [] inst = Sat_2024_08_03 -> "Night"
      [] inst = Wed_2022_10_05 -> "Afternoon"

KnownSeason(inst) ==
    CASE inst = Sun_2023_05_14 -> "Spring"
      [] inst = Mon_2023_12_11 -> "Winter"
      [] inst = Sat_2024_08_03 -> "Summer"
      [] inst = Wed_2022_10_05 -> "Autumn"

\* the title with every occurrence of "Watched" deleted in one pass
KnownCleanTitle(t) ==
    CASE t = TitleWatchedA -> <<" ", "a">>
      [] t = TitleB -> <<"b">>
      [] t = TitleTwice -> <<" ", "b", " ">>
      [] t = TitleNested -> <<"W", "a", "t", "c", "h", "e", "d">>

TimesOfDay == {"Morning", "Afternoon", "Evening", "Night"}

Seasons == {"Spring", "Summer", "Autumn", "Winter"}

StageOrder == <<"load", "clean", "normalize", "calendar", "derive">>

IsPrefix(s, t) == Len(s) <= Len(t) /\ \A k \in 1..Len(s) : s[k] = t[k]

DerivedColumns ==
    {"day", "month", "year", "hour", "minute", "second",
     "time_of_day", "season", "weekend"}

\* the file process_json_data reads cannot be loaded
LoaderFails == out_file.kind # "json"

\* the loaded table lacks one of the four columns clean_data drops
CleanerFails ==
    /\ out_file.kind = "json"
    /\ \E f \in {"details", "activityControls", "products", "header"} :
          \A k \in DOMAIN out_file.data : f \notin out_file.data[k].fields

ParseableString(v) == v.kind = "str" /\ v.enc \in Encodings

\* the row of a parseable record carries the fields of its own instant
RowDerivedFrom(row, inst) ==
    /\ row.time.kind = "ts" /\ row.time.inst = inst
    /\ row.day = Num(inst.day) /\ row.month = Num(inst.month)
    /\ row.year = Num(inst.year) /\ row.hour = Num(inst.hour)
    /\ row.minute = Num(inst.minute) /\ row.second = Num(inst.second)
    /\ row.time_of_day = KnownTimeOfDay(inst)
    /\ row.season = KnownSeason(inst)
    /\ row.weekend = (KnownWeekday(inst) \in {5, 6})

-----------------------------------------------------------------------------
(* Properties *)

\* C1: at every point of the loop of extract_and_save_data, the YouTube
\* partition is exactly the records read so far whose header is "YouTube",
\* in input order, the YouTube Music partition exactly those whose header is
\* "YouTube Music", a record with any other header is in neither, and the
\* file written at the end holds the YouTube partition of the whole input.
C1_Partition ==
    LET seen == SubSeq(data, 1, i - 1)
    IN  /\ youtube_data = SelectSeq(seen, IsYouTubeRecord)
        /\ youtube_music_data = SelectSeq(seen, IsYouTubeMusicRecord)
        /\ extract_status = "ok" =>
              /\ i = Len(data) + 1
              /\ out_file = Json(SelectSeq(data, IsYouTubeRecord))

\* a three-record input with the three kinds of header, fully partitioned
C1_Witness ==
    /\ extract_status = "ok"
    /\ Len(data) = 3
    /\ Len(youtube_data) = 1
    /\ Len(youtube_music_data) = 1
    /\ \E k \in 1..3 : HasHeader(data[k], "Other")

\* C2: after a failed extract_and_save_data (input file absent or not valid
\* JSON) main runs no later stage: process_json_data is not entered, builds
\* no table, and no chart view is rendered.
C2_AbortsAfterFailedExtract ==
    extract_status = "failed" =>
        /\ stages = <<>>
        /\ result.kind # "df"
        /\ views = <<>>

\* C3: convert_to_datetime returns the result of the first of the four
\* parsers, in the fixed order, that succeeds, returns None when all four
\* fail, and never lets an error escape, for every input value.
C3_FirstSuccessOrNoneNeverRaises ==
    call.fn = "convert_to_datetime" =>
        LET order == <<"generic", "isoZ", "slash", "abbr">>
            ok    == {k \in 1..4 : PdToDatetime(call.arg, order[k]).exc = ""}
        IN  /\ ret.exc = ""
            /\ ok = {} => ret.val = None
            /\ ok # {} =>
                  ret = PdToDatetime(call.arg,
                            order[CHOOSE k \in ok : \A j \in ok : k <= j])

\* C4: when exactly one record of the file process_json_data reads has a
\* timestamp in none of the four formats, process_json_data still returns a
\* table with one row per record; every other row has the fields of its own
\* instant, and the unparseable row's time-derived fields are absent (NaN,
\* no category, no weekend flag).
C4_UnparseableRowAbsent ==
    (/\ pc = "done"
     /\ out_file.kind = "json"
     /\ ~CleanerFails
     /\ \A k \in DOMAIN out_file.data :
           out_file.data[k].time = NotADate \/ ParseableString(out_file.data[k].time)
     /\ Cardinality({k \in DOMAIN out_file.data : out_file.data[k].time = NotADate}) = 1)
    =>
    /\ result.kind = "df"
    /\ Len(result.rows) = Len(out_file.data)
    /\ \A k \in DOMAIN out_file.data :
          LET row == result.rows[k]
              t   == out_file.data[k].time
          IN  IF t = NotADate
              THEN /\ row.day.nan /\ row.month.nan /\ row.year.nan
                   /\ row.hour.nan /\ row.minute.nan /\ row.second.nan
                   /\ row.time_of_day \notin TimesOfDay
                   /\ row.season \notin Seasons
                   /\ row.weekend \notin BOOLEAN
              ELSE RowDerivedFrom(row, t.inst)

\* C5: the stages of process_json_data run in the order load, clean,
\* normalize, calendar, derive; when the loader fails only the load stage has
\* run and the result is None; when the cleaner fails only load and clean
\* have run and the result is None; no stage after the loader is entered
\* with None for a table; a returned table has every derived column.
C5_ShortCircuit ==
    /\ IsPrefix(stages, StageOrder)
    /\ (pc \in {"clean", "components", "derive", "render", "done"} /\ LoaderFails) =>
          /\ pc \in {"render", "done"}
          /\ stages = <<"load">>
          /\ result = None
    /\ (pc \in {"components", "derive", "render", "done"} /\ CleanerFails) =>
          /\ pc \in {"render", "done"}
          /\ stages = <<"load", "clean">>
          /\ result = None
    /\ pc \in {"clean", "components", "derive"} => df.kind = "df"
    /\ result.kind = "df" => DerivedColumns \subseteq result.cols

\* a run in which the cleaner failed on a loaded table and main is over
C5_Witness ==
    /\ pc = "done"
    /\ CleanerFails
    /\ Len(out_file.data) > 0
    /\ result = None

\* C6: clean_data returns None whenever one of the four columns details,
\* activityControls, products, header is missing from its input, and
\* clean_data applied to the table a successful clean_data returned returns
\* None.
C6_CleanTwiceFails ==
    call.fn \in {"clean_data", "clean_data_again"} =>
        /\ (\E f \in {"details", "activityControls", "products", "header"} :
               f \notin call.arg.cols) => ret = None
        /\ call.fn = "clean_data_again" => ret = None

\* clean_data was applied to a table with rows that a clean_data returned
C6_Witness ==
    /\ call.fn = "clean_data_again"
    /\ Len(call.arg.rows) > 0
    /\ ret = None

\* C7: for every integer hour extract_time_of_day returns Morning exactly for
\* 6..11, Afternoon exactly for 12..17, Evening exactly for 18..23 and Night
\* for every other value.
C7_TimeOfDay ==
    (call.fn = "extract_time_of_day" /\ ~call.arg.nan) =>
        LET h == call.arg.v
        IN  /\ ret \in TimesOfDay
            /\ ret = "Morning" <=> h \in 6..11
            /\ ret = "Afternoon" <=> h \in 12..17
            /\ ret = "Evening" <=> h \in 18..23
            /\ ret = "Night" <=> h \notin 6..23

\* hour 24 was given and is Night
C7_Witness ==
    /\ call.fn = "extract_time_of_day"
    /\ call.arg = Num(24)
    /\ ret = "Night"

\* C8: for every integer month extract_season returns Spring exactly for
\* 3..5, Summer exactly for 6..8, Autumn exactly for 9..11 and Winter for
\* every other value.
C8_Season ==
    (call.fn = "extract_season" /\ ~call.arg.nan) =>
        LET m == call.arg.v
        IN  /\ ret \in Seasons
            /\ ret = "Spring" <=> m \in 3..5
            /\ ret = "Summer" <=> m \in 6..8
            /\ ret = "Autumn" <=> m \in 9..11
            /\ ret = "Winter" <=> m \notin 3..11

\* month 13 was given and is Winter
C8_Witness ==
    /\ call.fn = "extract_season"
    /\ call.arg = Num(13)
    /\ ret = "Winter"

\* C9: extract_weekend is true exactly for 5 and 6 and false for every other
\* input, and every row of the table process_json_data returns has
\* weekend = (the weekday of that row's own time is Saturday or Sunday),
\* false when the row has no time.
C9_Weekend ==
    /\ \A n \in -MaxArg .. MaxArg : extract_weekend(Num(n)) = (n \in {5, 6})
    /\ extract_weekend(NaN) = FALSE
    /\ result.kind = "df" =>
          /\ Len(result.rows) = Len(out_file.data)
          /\ \A k \in DOMAIN result.rows :
                LET t == out_file.data[k].time
                IN  result.rows[k].weekend =
                        (ParseableString(t) /\ KnownWeekday(t.inst) \in {5, 6})

\* a returned table with a weekend row and a weekday row
C9_Witness ==
    /\ result.kind = "df"
    /\ \E j, k \in DOMAIN result.rows :
          /\ result.rows[j].weekend
          /\ ~result.rows[k].weekend
          /\ result.rows[k].time.kind = "ts"

\* C10: end to end, for every well-formed input the derived table has exactly
\* one row per input record whose header is "YouTube", in input order, and
\* none for any other record; each row carries the cleaned title and
\* populated time_of_day, season and weekend.
C10_EndToEnd ==
    (/\ pc = "done"
     /\ extract_status = "ok"
     /\ \A k \in DOMAIN data :
           /\ data[k].fields = {"details", "activityControls", "products", "header"}
           /\ ParseableString(data[k].time))
    =>
    LET expected == SelectSeq(data, IsYouTubeRecord)
    IN  /\ result.kind = "df"
        /\ Len(result.rows) = Len(expected)
        /\ {"title", "time_of_day", "season", "weekend"} \subseteq result.cols
        /\ \A k \in DOMAIN expected :
              /\ result.rows[k].title = KnownCleanTitle(expected[k].title)
              /\ RowDerivedFrom(result.rows[k], expected[k].time.inst)

====
